---- MODULE Spec2Model ----
(***************************************************************************)
(* pywire_servo (src/rust/pywire_servo/src/lib.rs): the embedding host's   *)
(* FFI boundary (pw_start_app, pw_execute_javascript, pw_set_title,        *)
(* pw_resize_window), the winit event loop handlers of AppState (resumed,  *)
(* window_event, user_event), the pump/repaint pair, and the delegate      *)
(* callbacks of PyWireWebViewDelegate.                                     *)
(*                                                                         *)
(* Text is a sequence of byte / code point values.  A C string argument is *)
(* a record [null, bytes]; bytes never holds 0 (the terminator ends it).   *)
(* Sizes and positions are pairs <<x, y>>.                                 *)
(***************************************************************************)
EXTENDS Integers, Sequences, FiniteSets, TLC

(***************************************************************************)
(* Bounds of the model.                                                    *)
(***************************************************************************)
\* commands one producer thread posts successfully
MaxPosts == 2
\* commands waiting in the mailbox
MaxQueue == 2
\* length of the text after the reserved prefix / of a console line's free part
MaxText == 2

(***************************************************************************)
(* Program constants.                                                      *)
(***************************************************************************)
STATUS_OK == 0
STATUS_INVALID == -1
STATUS_SEND_FAILED == -2
STATUS_NOT_READY == -3
START_FAILED == -1
LINE_HEIGHT == 76
LINE_WIDTH == 76
\* U+FFFD, what to_string_lossy puts for a byte that is not UTF-8
REPLACEMENT_CHARACTER == 65533

\* "PW_MSG:"
PW_MSG == <<80, 87, 95, 77, 83, 71, 58>>
\* "PyWire Shell"
DEFAULT_TITLE == <<80, 121, 87, 105, 114, 101, 32, 83, 104, 101, 108, 108>>
\* "about:blank"
ABOUT_BLANK == <<97, 98, 111, 117, 116, 58, 98, 108, 97, 110, 107>>

(***************************************************************************)
(* Inputs.                                                                 *)
(***************************************************************************)
NULL == [null |-> TRUE, bytes |-> <<>>]

CString(b) == [null |-> FALSE, bytes |-> b]

\* "A", and one byte (0xFF) that is no UTF-8
TextArgs == {NULL, CString(<<65>>), CString(<<255>>)}

\* logical sizes a controller asks for
SizeArgs == {<<1024, 768>>, <<640, 480>>}

\* physical sizes the OS reports
PhysSizes == {<<1024, 768>>, <<1600, 1200>>}

Positions == {<<10, 20>>, <<30, 40>>}

ScaleFactors == {1, 2}

\* "h://x" (parses), "not a url" (does not)
URL_OK == <<104, 58, 47, 47, 120>>
URL_BAD == <<110, 111, 116, 32, 97, 32, 117, 114, 108>>

\* the configurations startApp is called with
StartParams ==
    { [title |-> NULL, url |-> NULL, width |-> 800, height |-> 600, on_event |-> FALSE],
      [title |-> CString(<<84>>), url |-> CString(URL_OK), width |-> 800, height |-> 600,
       on_event |-> TRUE],
      [title |-> CString(<<255>>), url |-> CString(URL_BAD), width |-> 800, height |-> 600,
       on_event |-> TRUE] }

\* SERVO_RESOURCES_PATH: not set, set to a path that does not exist, set and present
ResourceEnvs == {"unset", "nonexistent", "ok"}

\* controller threads calling the host boundary; the engine's waker thread
Producers == {"t1", "t2"}
WAKER == "waker"
Threads == Producers \cup {WAKER}

(***************************************************************************)
(* The inputs are independent of one another, so a run draws them from one *)
(* group: the host boundary's arguments against the lifecycle             *)
(* ("boundary"), two controller threads posting ("mailbox"), resizes,      *)
(* redraws and GPU outcomes ("render"), pointer and keyboard events        *)
(* ("input"), console lines ("console").                                   *)
(***************************************************************************)
Scenarios == {"boundary", "mailbox", "render", "input", "console"}

(***************************************************************************)
(* Text conversions.                                                       *)
(***************************************************************************)
\* The model's bytes are ASCII or 0xFF; 0xFF never occurs in UTF-8.
IsUtf8(b) == \A i \in 1..Len(b) : b[i] < 128

\* CStr::to_str().unwrap_or(default)
ToStrOr(p, default) == IF IsUtf8(p.bytes) THEN p.bytes ELSE default

\* CStr::to_string_lossy().into_owned()
ToStringLossy(p) ==
    [i \in 1..Len(p.bytes) |->
        IF p.bytes[i] < 128 THEN p.bytes[i] ELSE REPLACEMENT_CHARACTER]

\* starts_with given the prefix without its last character
StartsWith_short(s, prefix) ==
    /\ Len(s) >= Len(prefix) - 1
    /\ SubSeq(s, 1, Len(prefix) - 1) = SubSeq(prefix, 1, Len(prefix) - 1)

\* str::starts_with
StartsWith(s, prefix) ==
    /\ Len(s) >= Len(prefix)
    /\ SubSeq(s, 1, Len(prefix)) = prefix

\* CString::new(payload).is_ok(): no interior NUL
CStringNewOk(payload) == \A i \in 1..Len(payload) : payload[i] # 0

\* Url::parse(s).unwrap_or_else(|_| about:blank)
UrlParseOr(s) == IF s \in {URL_OK, ABOUT_BLANK} THEN s ELSE ABOUT_BLANK

(***************************************************************************)
(* UserEvent (the mailbox payload).                                        *)
(***************************************************************************)
Wake == [kind |-> "Wake", text |-> <<>>, size |-> <<0, 0>>]
ExecuteJs(s) == [kind |-> "ExecuteJs", text |-> s, size |-> <<0, 0>>]
SetTitle(s) == [kind |-> "SetTitle", text |-> s, size |-> <<0, 0>>]
Resize(w, h) == [kind |-> "Resize", text |-> <<>>, size |-> <<w, h>>]

NoEvent == [kind |-> "none", text |-> <<>>, size |-> <<0, 0>>]

(***************************************************************************)
(* State.                                                                  *)
(***************************************************************************)
VARIABLES
    scenario,           \* which group of inputs the environment offers in this run
    PROXY,              \* static PROXY: TRUE once the sender is published
    ON_EVENT_CALLBACK,  \* static ON_EVENT_CALLBACK: TRUE when Some(cb)
    loop,               \* where pw_start_app is: "NotStarted", in run_app ("Uninitialized"
                        \* before the window exists, "Running" once resumed has made it,
                        \* "ShuttingDown" after exit()), "Returned"
    ret,                \* <<>> until pw_start_app returns, then <<status>>
    queue,              \* the event loop's user-event channel
    app,                \* AppState
    win,                \* the OS window
    gl,                 \* the two rendering contexts
    view,               \* the engine's content view
    sent,               \* per thread: commands whose send_event returned Ok
    done,               \* per thread: commands user_event has consumed
    prev,               \* per thread: the command consumed last, and whether a window existed
    last                \* the step just taken: operation, argument, status, sub-steps

vars == <<scenario, PROXY, ON_EVENT_CALLBACK, loop, ret, queue, app, win, gl, view, sent, done, prev, last>>

Step(op, arg, status, trace, cb, input) ==
    [op |-> op, arg |-> arg, status |-> status, trace |-> trace, cb |-> cb, input |-> input]

AppState0 ==
    [servo |-> FALSE, webview |-> FALSE, window |-> FALSE,
     window_rendering_context |-> FALSE, offscreen_rendering_context |-> FALSE,
     needs_repaint |-> FALSE,
     initial_url |-> <<>>, initial_title |-> <<>>, initial_size |-> <<0, 0>>,
     last_mouse_position |-> <<0, 0>>, modifiers_state |-> 0]

Init ==
    /\ scenario \in Scenarios
    /\ PROXY = FALSE
    /\ ON_EVENT_CALLBACK = FALSE
    /\ loop = "NotStarted"
    /\ ret = <<>>
    /\ queue = <<>>
    /\ app = AppState0
    /\ win = [title |-> <<>>, requested |-> <<0, 0>>, inner_size |-> <<0, 0>>,
              scale_factor |-> 1, redraw_requested |-> FALSE]
    /\ gl = [current |-> "none", window_size |-> <<0, 0>>, offscreen_size |-> <<0, 0>>]
    /\ view = [url |-> <<>>, size |-> <<0, 0>>, scale |-> 1]
    /\ sent = [t \in Threads |-> 0]
    /\ done = [t \in Threads |-> 0]
    /\ prev = [t \in Producers |-> [ev |-> NoEvent, window |-> FALSE]]
    /\ last = Step("init", NULL, 0, <<>>, <<>>, <<>>)

\* the event loop object (and with it the channel's receiver) exists
LoopAlive == loop \in {"Uninitialized", "Running", "ShuttingDown"}

\* the loop dispatches events to the handlers
Dispatching == loop \in {"Uninitialized", "Running"}

(***************************************************************************)
(* pw_start_app                                                            *)
(***************************************************************************)
\* pw_start_app publishing the sender before it looks for the resources
pw_start_app_publishes_first(params, env, built) ==
    /\ loop = "NotStarted"
    /\ PROXY' = TRUE
    /\ IF env # "ok" \/ ~built
       THEN /\ loop' = "Returned"
            /\ ret' = <<START_FAILED>>
            /\ UNCHANGED <<ON_EVENT_CALLBACK, app>>
       ELSE /\ ON_EVENT_CALLBACK' = params.on_event
            /\ app' = [AppState0 EXCEPT
                        !.initial_url = IF params.url.null THEN ABOUT_BLANK
                                        ELSE ToStrOr(params.url, ABOUT_BLANK),
                        !.initial_title = IF params.title.null THEN DEFAULT_TITLE
                                          ELSE ToStrOr(params.title, DEFAULT_TITLE),
                        !.initial_size = <<params.width, params.height>>]
            /\ loop' = "Uninitialized"
            /\ ret' = ret
    /\ last' = Step("pw_start_app", <<env, built>>,
                    IF env # "ok" \/ ~built THEN START_FAILED ELSE STATUS_OK, <<>>, <<>>, <<>>)
    /\ UNCHANGED <<scenario, queue, win, gl, view, sent, done, prev>>

pw_start_app(params, env, built) ==
    /\ loop = "NotStarted"
    /\ IF env # "ok" \/ ~built
       THEN \* expect / panic! / unwrap inside catch_unwind: Err(_) => -1
            /\ loop' = "Returned"
            /\ ret' = <<START_FAILED>>
            /\ UNCHANGED <<scenario, PROXY, ON_EVENT_CALLBACK, app>>
       ELSE /\ PROXY' = TRUE
            /\ ON_EVENT_CALLBACK' = params.on_event
            /\ app' = [AppState0 EXCEPT
                        !.initial_url = IF params.url.null THEN ABOUT_BLANK
                                        ELSE ToStrOr(params.url, ABOUT_BLANK),
                        !.initial_title = IF params.title.null THEN DEFAULT_TITLE
                                          ELSE ToStrOr(params.title, DEFAULT_TITLE),
                        !.initial_size = <<params.width, params.height>>]
            /\ loop' = "Uninitialized"
            /\ ret' = ret
    /\ last' = Step("pw_start_app", <<env, built>>,
                    IF env # "ok" \/ ~built THEN START_FAILED ELSE STATUS_OK, <<>>, <<>>, <<>>)
    /\ UNCHANGED <<scenario, queue, win, gl, view, sent, done, prev>>

(***************************************************************************)
(* EventLoopProxy::send_event, as the host boundary uses it.               *)
(***************************************************************************)
\* PostStatus with the two failure codes the wrong way round
PostStatus_codes_swapped ==
    IF PROXY THEN (IF LoopAlive THEN STATUS_OK ELSE STATUS_NOT_READY)
    ELSE STATUS_SEND_FAILED

\* PostStatus with the result of send_event dropped
PostStatus_send_unchecked == IF PROXY THEN STATUS_OK ELSE STATUS_NOT_READY

\* the status the three posting functions compute once their input is valid
PostStatus == IF PROXY THEN (IF LoopAlive THEN STATUS_OK ELSE STATUS_SEND_FAILED)
              ELSE STATUS_NOT_READY

Post(t, ev, status) ==
    IF status = STATUS_OK
    THEN /\ queue' = Append(queue, [ev |-> ev, by |-> t, n |-> sent[t] + 1])
         /\ sent' = [sent EXCEPT ![t] = @ + 1]
    ELSE UNCHANGED <<queue, sent>>

(***************************************************************************)
(* The UI thread's handlers run to completion; W is the state they work on *)
(* together with the sub-steps taken so far (trace), the input events      *)
(* forwarded to the engine (input) and whether the handler panicked.       *)
(***************************************************************************)
World == [app |-> app, win |-> win, gl |-> gl, view |-> view,
          trace |-> <<>>, input |-> <<>>, panic |-> FALSE]

\* one sub-step: what was done, which context was current, the blit rectangle
Sub(W, op) == [op |-> op, current |-> W.gl.current, rect |-> <<0, 0, 0, 0>>]

Did(W, op) == [W EXCEPT !.trace = Append(@, Sub(W, op))]

Panic(W, op) == [Did(W, op) EXCEPT !.panic = TRUE]

\* outcomes of the GPU's make_current calls during one handler
GpuOutcomes == {"ok", "offscreen_fails", "window_fails"}

\* what the engine signals to its delegate while spin_event_loop runs
SpinOutcomes == {"nothing", "new_frame", "load_status"}

\* notify_new_frame_ready setting the flag without asking for a redraw
notify_new_frame_ready_flag_only(W) ==
    [Did(W, "notify_new_frame_ready") EXCEPT !.app.needs_repaint = TRUE]

\* PyWireWebViewDelegate::notify_new_frame_ready
notify_new_frame_ready(W) ==
    [Did(W, "notify_new_frame_ready") EXCEPT
        !.app.needs_repaint = TRUE,
        !.win.redraw_requested = TRUE]

\* PyWireWebViewDelegate::notify_load_status_changed
notify_load_status_changed(W) ==
    [Did(W, "notify_load_status_changed") EXCEPT !.win.redraw_requested = TRUE]

\* repaint carrying on after the switch to the on-screen context failed
repaint_ignores_failed_switch(W, gpu) ==
    IF ~(W.app.webview /\ W.app.window_rendering_context
         /\ W.app.offscreen_rendering_context /\ W.app.window)
    THEN W
    ELSE IF gpu = "offscreen_fails"
    THEN Panic(W, "make_current(offscreen) failed")
    ELSE LET W1 == Did([W EXCEPT !.gl.current = "offscreen"], "make_current(offscreen)")
             W2 == Did(Did(W1, "prepare_for_rendering(offscreen)"), "paint")
             W3 == IF gpu = "window_fails"
                   THEN Did(W2, "make_current(window) failed")
                   ELSE Did([W2 EXCEPT !.gl.current = "window"], "make_current(window)")
             W4 == Did(W3, "prepare_for_rendering(window)")
             W5 == [W4 EXCEPT !.trace = Append(@,
                       [op |-> "blit", current |-> W4.gl.current,
                        rect |-> <<0, 0, W4.win.inner_size[1], W4.win.inner_size[2]>>])]
         IN  Did(W5, "present")

\* AppState::repaint
repaint(W, gpu) ==
    IF ~(W.app.webview /\ W.app.window_rendering_context
         /\ W.app.offscreen_rendering_context /\ W.app.window)
    THEN W
    ELSE IF gpu = "offscreen_fails"
    THEN Panic(W, "make_current(offscreen) failed")
    ELSE LET W1 == Did([W EXCEPT !.gl.current = "offscreen"], "make_current(offscreen)")
             W2 == Did(Did(W1, "prepare_for_rendering(offscreen)"), "paint")
         IN  IF gpu = "window_fails"
             THEN Panic(W2, "make_current(window) failed")
             ELSE LET W3 == Did([W2 EXCEPT !.gl.current = "window"], "make_current(window)")
                      W4 == Did(W3, "prepare_for_rendering(window)")
                      W5 == [W4 EXCEPT !.trace = Append(@,
                                [op |-> "blit", current |-> W4.gl.current,
                                 rect |-> <<0, 0, W4.win.inner_size[1], W4.win.inner_size[2]>>])]
                  IN  Did(W5, "present")

\* pump_servo taking the flag without repainting
pump_servo_drops_frame(W, sp, gpu) ==
    LET W1 == IF W.app.servo
              THEN LET S == Did(W, "spin_event_loop")
                   IN  CASE sp = "new_frame" -> notify_new_frame_ready(S)
                         [] sp = "load_status" -> notify_load_status_changed(S)
                         [] OTHER -> S
              ELSE W
    IN  [W1 EXCEPT !.app.needs_repaint = FALSE]

\* AppState::pump_servo
pump_servo(W, sp, gpu) ==
    LET W1 == IF W.app.servo
              THEN LET S == Did(W, "spin_event_loop")
                   IN  CASE sp = "new_frame" -> notify_new_frame_ready(S)
                         [] sp = "load_status" -> notify_load_status_changed(S)
                         [] OTHER -> S
              ELSE W
    IN  IF W1.app.needs_repaint
        THEN repaint([W1 EXCEPT !.app.needs_repaint = FALSE], gpu)
        ELSE W1

\* the handler returns (or unwinds): the UI state it leaves, and the step record
Commit(W, op, arg, nextLoop) ==
    /\ app' = W.app
    /\ win' = W.win
    /\ gl' = W.gl
    /\ view' = W.view
    /\ IF W.panic
       THEN \* the panic unwinds through run_app into catch_unwind; the loop is dropped
            /\ loop' = "Returned"
            /\ ret' = <<START_FAILED>>
       ELSE /\ loop' = nextLoop
            /\ ret' = ret
    /\ last' = Step(op, arg, IF W.panic THEN START_FAILED ELSE STATUS_OK, W.trace, <<>>, W.input)

\* the channel dies with the loop; what was still queued is dropped
QueueAfter(W, q) == IF W.panic THEN <<>> ELSE q

(***************************************************************************)
(* ApplicationHandler::resumed                                             *)
(***************************************************************************)
ResumeFaults == {"none", "create_window", "create_rendering_context", "make_current"}

\* resumed without the test for a window already made
resumed_world_unguarded(fault, sp, gpu) ==
    LET W == World IN
    IF fault = "create_window" THEN Panic(W, "create_window failed")
    ELSE
    LET physical == <<W.app.initial_size[1] * W.win.scale_factor,
                      W.app.initial_size[2] * W.win.scale_factor>>
        W1 == Did([W EXCEPT !.app.window = TRUE,
                            !.win.title = W.app.initial_title,
                            !.win.requested = W.app.initial_size,
                            !.win.inner_size = physical], "create_window")
    IN  IF fault = "create_rendering_context"
        THEN Panic(W1, "WindowRenderingContext::new failed")
        ELSE IF fault = "make_current"
        THEN Panic(Did(W1, "WindowRenderingContext::new"), "make_current(window) failed")
        ELSE
        LET W2 == Did(Did([W1 EXCEPT !.gl.window_size = physical, !.gl.current = "window"],
                          "WindowRenderingContext::new"), "make_current(window)")
            W3 == Did([W2 EXCEPT !.gl.offscreen_size = physical,
                                 !.app.window_rendering_context = TRUE,
                                 !.app.offscreen_rendering_context = TRUE],
                      "offscreen_context")
            W4 == Did(W3, "ServoBuilder::build")
            W5 == Did([W4 EXCEPT !.view = [url |-> UrlParseOr(W.app.initial_url),
                                           size |-> physical,
                                           scale |-> W.win.scale_factor],
                                 !.app.servo = TRUE,
                                 !.app.webview = TRUE], "WebViewBuilder::build")
            W6 == pump_servo(W5, sp, gpu)
        IN  IF W6.panic THEN W6
            ELSE [Did(W6, "request_redraw") EXCEPT !.win.redraw_requested = TRUE]

resumed_world(fault, sp, gpu) ==
    LET W == World IN
    IF W.app.window THEN W
    ELSE IF fault = "create_window" THEN Panic(W, "create_window failed")
    ELSE
    LET physical == <<W.app.initial_size[1] * W.win.scale_factor,
                      W.app.initial_size[2] * W.win.scale_factor>>
        W1 == Did([W EXCEPT !.app.window = TRUE,
                            !.win.title = W.app.initial_title,
                            !.win.requested = W.app.initial_size,
                            !.win.inner_size = physical], "create_window")
    IN  IF fault = "create_rendering_context"
        THEN Panic(W1, "WindowRenderingContext::new failed")
        ELSE IF fault = "make_current"
        THEN Panic(Did(W1, "WindowRenderingContext::new"), "make_current(window) failed")
        ELSE
        LET W2 == Did(Did([W1 EXCEPT !.gl.window_size = physical, !.gl.current = "window"],
                          "WindowRenderingContext::new"), "make_current(window)")
            W3 == Did([W2 EXCEPT !.gl.offscreen_size = physical,
                                 !.app.window_rendering_context = TRUE,
                                 !.app.offscreen_rendering_context = TRUE],
                      "offscreen_context")
            W4 == Did(W3, "ServoBuilder::build")
            W5 == Did([W4 EXCEPT !.view = [url |-> UrlParseOr(W.app.initial_url),
                                           size |-> physical,
                                           scale |-> W.win.scale_factor],
                                 !.app.servo = TRUE,
                                 !.app.webview = TRUE], "WebViewBuilder::build")
            W6 == pump_servo(W5, sp, gpu)
        IN  IF W6.panic THEN W6
            ELSE [Did(W6, "request_redraw") EXCEPT !.win.redraw_requested = TRUE]

resumed(fault, sp, gpu) ==
    /\ Dispatching
    /\ LET W == resumed_world(fault, sp, gpu) IN
       /\ Commit(W, "resumed", fault, IF app.window THEN loop ELSE "Running")
       /\ queue' = QueueAfter(W, queue)
    /\ UNCHANGED <<scenario, PROXY, ON_EVENT_CALLBACK, sent, done, prev>>

(***************************************************************************)
(* ApplicationHandler::window_event                                        *)
(***************************************************************************)
WEvent(kind, size, pos, n) == [kind |-> kind, size |-> size, pos |-> pos, n |-> n]

\* MouseInput: n = 0 is Pressed/Left, n = 1 is Released/Right.
\* MouseWheel: n = 0 is LineDelta(pos), n = 1 is PixelDelta(pos).
WindowEvents ==
    {WEvent("CloseRequested", <<0, 0>>, <<0, 0>>, 0)}
    \cup {WEvent("Resized", s, <<0, 0>>, 0) : s \in PhysSizes}
    \cup {WEvent("ScaleFactorChanged", <<0, 0>>, <<0, 0>>, f) : f \in ScaleFactors}
    \cup {WEvent("CursorMoved", <<0, 0>>, p, 0) : p \in Positions}
    \cup {WEvent("MouseInput", <<0, 0>>, <<0, 0>>, n) : n \in {0, 1}}
    \cup {WEvent("ModifiersChanged", <<0, 0>>, <<0, 0>>, n) : n \in {0, 1}}
    \cup {WEvent("KeyboardInput", <<0, 0>>, <<0, 0>>, 65)}
    \cup {WEvent("MouseWheel", <<0, 0>>, <<1, -1>>, n) : n \in {0, 1}}
    \cup {WEvent("RedrawRequested", <<0, 0>>, <<0, 0>>, 0)}
    \cup {WEvent("Focused", <<0, 0>>, <<0, 0>>, 0)}

Forward(W, ev) ==
    IF W.app.webview
    THEN Did([W EXCEPT !.input = Append(@, ev)], "notify_input_event")
    ELSE W

InputEvent(kind, point, a, b) == [kind |-> kind, point |-> point, a |-> a, b |-> b]

\* window_event forwarding a button event without the last pointer position
window_event_effect_button_at_origin(W, e, gpu) ==
    CASE e.kind = "Resized" ->
            LET W1 == IF W.app.window_rendering_context
                      THEN Did([W EXCEPT !.gl.window_size = e.size], "window_rc.resize")
                      ELSE W
            IN  IF W1.app.webview
                THEN Did([W1 EXCEPT !.view.size = e.size, !.gl.offscreen_size = e.size],
                         "webview.resize")
                ELSE W1
      [] e.kind = "ScaleFactorChanged" ->
            IF W.app.webview
            THEN Did([W EXCEPT !.view.scale = e.n], "set_hidpi_scale_factor")
            ELSE W
      [] e.kind = "CursorMoved" ->
            Forward(Did([W EXCEPT !.app.last_mouse_position = e.pos],
                        "last_mouse_position.set"),
                    InputEvent("MouseMove", e.pos, 0, 0))
      [] e.kind = "MouseInput" ->
            Forward(W, InputEvent("MouseButton", <<0, 0>>, e.n, e.n))
      [] e.kind = "ModifiersChanged" ->
            Did([W EXCEPT !.app.modifiers_state = e.n], "modifiers_state.set")
      [] e.kind = "KeyboardInput" ->
            Forward(W, InputEvent("Keyboard", <<0, 0>>, e.n, W.app.modifiers_state))
      [] e.kind = "MouseWheel" ->
            Forward(W, InputEvent("Wheel", W.app.last_mouse_position,
                                  IF e.n = 0 THEN e.pos[1] * LINE_WIDTH ELSE e.pos[1],
                                  IF e.n = 0 THEN e.pos[2] * LINE_HEIGHT ELSE e.pos[2]))
      [] e.kind = "RedrawRequested" -> repaint(Did(W, "RedrawRequested"), gpu)
      [] OTHER -> W

\* the match arms of window_event other than CloseRequested
window_event_effect(W, e, gpu) ==
    CASE e.kind = "Resized" ->
            LET W1 == IF W.app.window_rendering_context
                      THEN Did([W EXCEPT !.gl.window_size = e.size], "window_rc.resize")
                      ELSE W
            IN  IF W1.app.webview
                THEN Did([W1 EXCEPT !.view.size = e.size, !.gl.offscreen_size = e.size],
                         "webview.resize")
                ELSE W1
      [] e.kind = "ScaleFactorChanged" ->
            IF W.app.webview
            THEN Did([W EXCEPT !.view.scale = e.n], "set_hidpi_scale_factor")
            ELSE W
      [] e.kind = "CursorMoved" ->
            Forward(Did([W EXCEPT !.app.last_mouse_position = e.pos],
                        "last_mouse_position.set"),
                    InputEvent("MouseMove", e.pos, 0, 0))
      [] e.kind = "MouseInput" ->
            Forward(W, InputEvent("MouseButton", W.app.last_mouse_position, e.n, e.n))
      [] e.kind = "ModifiersChanged" ->
            Did([W EXCEPT !.app.modifiers_state = e.n], "modifiers_state.set")
      [] e.kind = "KeyboardInput" ->
            Forward(W, InputEvent("Keyboard", <<0, 0>>, e.n, W.app.modifiers_state))
      [] e.kind = "MouseWheel" ->
            Forward(W, InputEvent("Wheel", W.app.last_mouse_position,
                                  IF e.n = 0 THEN e.pos[1] * LINE_WIDTH ELSE e.pos[1],
                                  IF e.n = 0 THEN e.pos[2] * LINE_HEIGHT ELSE e.pos[2]))
      [] e.kind = "RedrawRequested" -> repaint(Did(W, "RedrawRequested"), gpu)
      [] OTHER -> W

\* what the OS has already done to the window when it delivers the event
Delivered(W, e) ==
    CASE e.kind = "Resized" -> [W EXCEPT !.win.inner_size = e.size]
      [] e.kind = "ScaleFactorChanged" -> [W EXCEPT !.win.scale_factor = e.n]
      [] e.kind = "RedrawRequested" -> [W EXCEPT !.win.redraw_requested = FALSE]
      [] OTHER -> W

\* window_event pumping the engine before it applies the event's effect
window_event_world_pump_first(e, sp, gpu) ==
    IF e.kind = "CloseRequested"
    THEN Did(World, "exit")
    ELSE LET W1 == pump_servo(Delivered(World, e), sp, gpu)
         IN  IF W1.panic THEN W1 ELSE window_event_effect(W1, e, gpu)

\* window_event without the return after exit()
window_event_world_no_return(e, sp, gpu) ==
    LET W1 == IF e.kind = "CloseRequested" THEN Did(World, "exit")
              ELSE window_event_effect(Delivered(World, e), e, gpu)
    IN  IF W1.panic THEN W1 ELSE pump_servo(W1, sp, gpu)

window_event_world(e, sp, gpu) ==
    IF e.kind = "CloseRequested"
    THEN Did(World, "exit")
    ELSE LET W1 == window_event_effect(Delivered(World, e), e, gpu)
         IN  IF W1.panic THEN W1 ELSE pump_servo(W1, sp, gpu)

window_event(e, sp, gpu) ==
    /\ Dispatching
    /\ app.window
    /\ LET W == window_event_world(e, sp, gpu) IN
       /\ Commit(W, "window_event", e, IF e.kind = "CloseRequested" THEN "ShuttingDown" ELSE loop)
       /\ queue' = QueueAfter(W, queue)
    /\ UNCHANGED <<scenario, PROXY, ON_EVENT_CALLBACK, sent, done, prev>>

(***************************************************************************)
(* ApplicationHandler::user_event                                          *)
(***************************************************************************)
\* user_event asking for the size with width and height the wrong way round
user_event_world_size_swapped(ev, sp, gpu) ==
    LET W == World IN
    CASE ev.kind = "Wake" -> pump_servo(W, sp, gpu)
      [] ev.kind = "ExecuteJs" ->
            IF W.app.webview
            THEN Did([W EXCEPT !.input = Append(@, InputEvent("evaluate_javascript", <<0, 0>>,
                                                               ev.text, 0))],
                     "evaluate_javascript")
            ELSE W
      [] ev.kind = "SetTitle" ->
            IF W.app.window
            THEN Did([W EXCEPT !.win.title = ev.text], "set_title")
            ELSE W
      [] ev.kind = "Resize" ->
            IF W.app.window
            THEN Did([W EXCEPT !.win.requested = <<ev.size[2], ev.size[1]>>], "request_inner_size")
            ELSE W
      [] OTHER -> W

\* user_event keeping the title of a SetTitle that finds no window, for resumed to use
user_event_world_keeps_title(ev, sp, gpu) ==
    LET W == World IN
    CASE ev.kind = "Wake" -> pump_servo(W, sp, gpu)
      [] ev.kind = "ExecuteJs" ->
            IF W.app.webview
            THEN Did([W EXCEPT !.input = Append(@, InputEvent("evaluate_javascript", <<0, 0>>,
                                                               ev.text, 0))],
                     "evaluate_javascript")
            ELSE W
      [] ev.kind = "SetTitle" ->
            IF W.app.window
            THEN Did([W EXCEPT !.win.title = ev.text], "set_title")
            ELSE [W EXCEPT !.app.initial_title = ev.text]
      [] ev.kind = "Resize" ->
            IF W.app.window
            THEN Did([W EXCEPT !.win.requested = ev.size], "request_inner_size")
            ELSE W
      [] OTHER -> W

\* user_event pumping the engine after SetTitle
user_event_world_title_pumps(ev, sp, gpu) ==
    LET W == World IN
    CASE ev.kind = "Wake" -> pump_servo(W, sp, gpu)
      [] ev.kind = "ExecuteJs" ->
            IF W.app.webview
            THEN Did([W EXCEPT !.input = Append(@, InputEvent("evaluate_javascript", <<0, 0>>,
                                                               ev.text, 0))],
                     "evaluate_javascript")
            ELSE W
      [] ev.kind = "SetTitle" ->
            pump_servo(IF W.app.window
                       THEN Did([W EXCEPT !.win.title = ev.text], "set_title")
                       ELSE W, sp, gpu)
      [] ev.kind = "Resize" ->
            IF W.app.window
            THEN Did([W EXCEPT !.win.requested = ev.size], "request_inner_size")
            ELSE W
      [] OTHER -> W

user_event_world(ev, sp, gpu) ==
    LET W == World IN
    CASE ev.kind = "Wake" -> pump_servo(W, sp, gpu)
      [] ev.kind = "ExecuteJs" ->
            IF W.app.webview
            THEN Did([W EXCEPT !.input = Append(@, InputEvent("evaluate_javascript", <<0, 0>>,
                                                               ev.text, 0))],
                     "evaluate_javascript")
            ELSE W
      [] ev.kind = "SetTitle" ->
            IF W.app.window
            THEN Did([W EXCEPT !.win.title = ev.text], "set_title")
            ELSE W
      [] ev.kind = "Resize" ->
            IF W.app.window
            THEN Did([W EXCEPT !.win.requested = ev.size], "request_inner_size")
            ELSE W
      [] OTHER -> W

user_event(sp, gpu) ==
    /\ Dispatching
    /\ queue # <<>>
    /\ LET m == Head(queue)
           W == user_event_world(m.ev, sp, gpu)
       IN  /\ Commit(W, "user_event", m, loop)
           /\ queue' = QueueAfter(W, Tail(queue))
           /\ done' = [done EXCEPT ![m.by] = @ + 1]
           /\ prev' = IF m.by \in Producers
                      THEN [prev EXCEPT ![m.by] = [ev |-> m.ev, window |-> app.window]]
                      ELSE prev
    /\ UNCHANGED <<scenario, PROXY, ON_EVENT_CALLBACK, sent>>

\* run_app returns after exit(); Ok(_) => 0.  The loop and its channel are dropped.
run_app_returns ==
    /\ loop = "ShuttingDown"
    /\ loop' = "Returned"
    /\ ret' = <<STATUS_OK>>
    /\ queue' = <<>>
    /\ last' = Step("run_app_returns", NULL, STATUS_OK, <<>>, <<>>, <<>>)
    /\ UNCHANGED <<scenario, PROXY, ON_EVENT_CALLBACK, app, win, gl, view, sent, done, prev>>

(***************************************************************************)
(* PyWireWebViewDelegate: the engine calls its delegate on the UI thread.  *)
(***************************************************************************)
RECURSIVE TextsUpTo(_)
TextsUpTo(n) ==
    IF n = 0 THEN {<<>>}
    ELSE LET S == TextsUpTo(n - 1)
         IN  S \cup {Append(t, c) : t \in S, c \in {0, 97}}

\* the console lines the engine logs: free text, the prefix followed by text,
\* the prefix inside a line, and the prefix cut short
ConsoleLines ==
    TextsUpTo(MaxText)
    \cup {PW_MSG \o t : t \in TextsUpTo(MaxText)}
    \cup {<<97>> \o PW_MSG \o t : t \in TextsUpTo(1)}
    \cup {SubSeq(PW_MSG, 1, Len(PW_MSG) - 1)}

\* the payloads show_console_message hands to the callback for one line
show_console_message_calls(message) ==
    IF StartsWith(message, PW_MSG)
    THEN LET payload == SubSeq(message, Len(PW_MSG) + 1, Len(message))
         IN  IF ON_EVENT_CALLBACK /\ CStringNewOk(payload) THEN <<payload>> ELSE <<>>
    ELSE <<>>

show_console_message(message) ==
    /\ Dispatching
    /\ app.webview
    /\ last' = Step("show_console_message", message, STATUS_OK, <<>>,
                    show_console_message_calls(message), <<>>)
    /\ UNCHANGED <<scenario, PROXY, ON_EVENT_CALLBACK, loop, ret, queue, app, win, gl, view,
                   sent, done, prev>>

\* a delegate notification outside spin_event_loop
delegate_notifies(sp) ==
    /\ Dispatching
    /\ app.webview
    /\ sp # "nothing"
    /\ LET W == IF sp = "new_frame" THEN notify_new_frame_ready(World)
                ELSE notify_load_status_changed(World)
       IN  Commit(W, "delegate", sp, loop)
    /\ UNCHANGED <<scenario, PROXY, ON_EVENT_CALLBACK, queue, sent, done, prev>>

(***************************************************************************)
(* What the environment offers in each scenario.                           *)
(***************************************************************************)
WindowEventsOf(kinds) == {e \in WindowEvents : e.kind \in kinds}

Inputs ==
    CASE scenario = "boundary" ->
            [params |-> {p \in StartParams : p.url.bytes = URL_OK},
             envs |-> ResourceEnvs, built |-> BOOLEAN,
             producers |-> {"t1"}, posts |-> 1,
             texts |-> [t \in {"t1"} |-> TextArgs],
             sizes |-> [t \in {"t1"} |-> {<<1024, 768>>}],
             resume_faults |-> {"none"},
             events |-> WindowEventsOf({"CloseRequested"}),
             spins |-> {"nothing"}, gpus |-> {"ok"},
             lines |-> {}, notifications |-> {}, wakes |-> FALSE]
      [] scenario = "mailbox" ->
            [params |-> {p \in StartParams : p.url.bytes = URL_OK},
             envs |-> {"ok"}, built |-> {TRUE},
             producers |-> Producers, posts |-> MaxPosts,
             texts |-> [t \in Producers |->
                          IF t = "t1" THEN {CString(<<65>>)} ELSE {CString(<<255>>)}],
             sizes |-> [t \in Producers |->
                          IF t = "t1" THEN {<<1024, 768>>} ELSE {<<640, 480>>}],
             resume_faults |-> {"none"},
             events |-> WindowEventsOf({"CloseRequested"}),
             spins |-> {"nothing"}, gpus |-> {"ok"},
             lines |-> {}, notifications |-> {}, wakes |-> TRUE]
      [] scenario = "render" ->
            [params |-> {p \in StartParams : p.url.null},
             envs |-> {"ok"}, built |-> {TRUE},
             producers |-> {"t1"}, posts |-> 1,
             texts |-> [t \in {"t1"} |-> {CString(<<65>>)}],
             sizes |-> [t \in {"t1"} |-> {<<1024, 768>>}],
             resume_faults |-> ResumeFaults,
             events |-> WindowEventsOf({"CloseRequested", "Resized", "ScaleFactorChanged",
                                        "RedrawRequested"}),
             spins |-> SpinOutcomes, gpus |-> GpuOutcomes,
             lines |-> {}, notifications |-> SpinOutcomes, wakes |-> TRUE]
      [] scenario = "input" ->
            [params |-> {p \in StartParams : p.url.null},
             envs |-> {"ok"}, built |-> {TRUE},
             producers |-> {"t1"}, posts |-> 1,
             texts |-> [t \in {"t1"} |-> {CString(<<65>>)}],
             sizes |-> [t \in {"t1"} |-> {<<1024, 768>>}],
             resume_faults |-> {"none"},
             events |-> WindowEventsOf({"CloseRequested", "CursorMoved", "MouseInput",
                                        "ModifiersChanged", "KeyboardInput", "MouseWheel",
                                        "Focused", "RedrawRequested"}),
             spins |-> {"nothing", "new_frame"}, gpus |-> {"ok"},
             lines |-> {}, notifications |-> {"new_frame"}, wakes |-> FALSE]
      [] OTHER ->
            [params |-> StartParams,
             envs |-> {"ok"}, built |-> {TRUE},
             producers |-> {}, posts |-> 0,
             texts |-> <<>>, sizes |-> <<>>,
             resume_faults |-> {"none"},
             events |-> WindowEventsOf({"CursorMoved", "ModifiersChanged", "Resized",
                                        "RedrawRequested"}),
             spins |-> {"nothing", "new_frame"}, gpus |-> {"ok"},
             lines |-> ConsoleLines, notifications |-> {"new_frame"}, wakes |-> FALSE]

\* the bounds on the mailbox, where a post would succeed
CanPost(t) == PostStatus = STATUS_OK => (sent[t] < Inputs.posts /\ Len(queue) < MaxQueue)

(***************************************************************************)
(* The host boundary's posting functions.                                  *)
(***************************************************************************)
pw_execute_javascript(t, script) ==
    LET status == IF script.null THEN STATUS_INVALID ELSE PostStatus IN
    /\ CanPost(t)
    /\ Post(t, ExecuteJs(ToStringLossy(script)), status)
    /\ last' = Step("pw_execute_javascript", script, status, <<>>, <<>>, <<>>)
    /\ UNCHANGED <<scenario, PROXY, ON_EVENT_CALLBACK, loop, ret, app, win, gl, view, done, prev>>

\* pw_set_title looking at PROXY before it looks at the pointer
pw_set_title_proxy_first(t, title) ==
    LET status == IF ~PROXY THEN STATUS_NOT_READY
                  ELSE IF title.null THEN STATUS_INVALID ELSE PostStatus IN
    /\ CanPost(t)
    /\ Post(t, SetTitle(ToStringLossy(title)), status)
    /\ last' = Step("pw_set_title", title, status, <<>>, <<>>, <<>>)
    /\ UNCHANGED <<scenario, PROXY, ON_EVENT_CALLBACK, loop, ret, app, win, gl, view, done, prev>>

pw_set_title(t, title) ==
    LET status == IF title.null THEN STATUS_INVALID ELSE PostStatus IN
    /\ CanPost(t)
    /\ Post(t, SetTitle(ToStringLossy(title)), status)
    /\ last' = Step("pw_set_title", title, status, <<>>, <<>>, <<>>)
    /\ UNCHANGED <<scenario, PROXY, ON_EVENT_CALLBACK, loop, ret, app, win, gl, view, done, prev>>

pw_resize_window(t, size) ==
    /\ CanPost(t)
    /\ Post(t, Resize(size[1], size[2]), PostStatus)
    /\ last' = Step("pw_resize_window", size, PostStatus, <<>>, <<>>, <<>>)
    /\ UNCHANGED <<scenario, PROXY, ON_EVENT_CALLBACK, loop, ret, app, win, gl, view, done, prev>>

(***************************************************************************)
(* JsonWaker::wake, called by the engine's threads.                        *)
(***************************************************************************)
wake ==
    /\ Inputs.wakes
    /\ app.servo
    /\ LoopAlive => (sent[WAKER] < Inputs.posts /\ Len(queue) < MaxQueue)
    /\ Post(WAKER, Wake, IF LoopAlive THEN STATUS_OK ELSE STATUS_SEND_FAILED)
    /\ last' = Step("wake", NULL, IF LoopAlive THEN STATUS_OK ELSE STATUS_SEND_FAILED,
                    <<>>, <<>>, <<>>)
    /\ UNCHANGED <<scenario, PROXY, ON_EVENT_CALLBACK, loop, ret, app, win, gl, view, done, prev>>

Next ==
    \/ \E p \in Inputs.params, env \in Inputs.envs, built \in Inputs.built :
          pw_start_app(p, env, built)
    \/ \E t \in Inputs.producers : \E s \in Inputs.texts[t] : pw_execute_javascript(t, s)
    \/ \E t \in Inputs.producers : \E s \in Inputs.texts[t] : pw_set_title(t, s)
    \/ \E t \in Inputs.producers : \E s \in Inputs.sizes[t] : pw_resize_window(t, s)
    \/ \E f \in Inputs.resume_faults, sp \in Inputs.spins, gpu \in Inputs.gpus :
          resumed(f, sp, gpu)
    \/ \E e \in Inputs.events, sp \in Inputs.spins, gpu \in Inputs.gpus :
          window_event(e, sp, gpu)
    \/ \E sp \in Inputs.spins, gpu \in Inputs.gpus : user_event(sp, gpu)
    \/ run_app_returns
    \/ wake
    \/ \E m \in Inputs.lines : show_console_message(m)
    \/ \E sp \in Inputs.notifications : delegate_notifies(sp)

Spec == Init /\ [][Next]_vars

\* run_app returns once exit() was called: the loop runs on its own thread
FairSpec == Spec /\ WF_vars(run_app_returns)

\* a redraw was asked for with window.request_redraw() and the loop can deliver it
RedrawPending ==
    /\ win.redraw_requested
    /\ Dispatching
    /\ app.window
    /\ Inputs.events \cap WindowEventsOf({"RedrawRequested"}) # {}

\* the OS delivers the redraw that was asked for: a window_event(RedrawRequested) step
redraw_delivered ==
    /\ RedrawPending
    /\ last'.op = "window_event"
    /\ last'.arg.kind = "RedrawRequested"

\* the loop keeps processing events: weak fairness of the delivery of a requested
\* redraw, written with its enabling condition RedrawPending
LiveSpec ==
    /\ Spec
    /\ WF_vars(run_app_returns)
    /\ (<>[]RedrawPending => []<><<redraw_delivered>>_vars)

(***************************************************************************)
(* Properties.                                                             *)
(***************************************************************************)
\* everything but the record of the step
NothingElseChanges ==
    UNCHANGED <<scenario, PROXY, ON_EVENT_CALLBACK, loop, ret, queue, app, win, gl, view,
                sent, done, prev>>

TextCalls == {"pw_execute_javascript", "pw_set_title"}
HostCalls == TextCalls \cup {"pw_resize_window"}

\* the step just taken is a host call whose arguments pass validation
ValidHostCall ==
    \/ last.op = "pw_resize_window"
    \/ last.op \in TextCalls /\ ~last.arg.null

\* the step just taken is a host call with a null text pointer
NullTextCall == last.op \in TextCalls /\ last.arg.null

\* C1: executeScript and setTitle called with a null text pointer return the
\* invalid-input status -1 and post nothing, whatever the lifecycle state (mailbox
\* unpublished, published and running, loop exited); -1 is none of the not-ready,
\* send-failed and success statuses.
C1_NullTextIsInvalidInput ==
    [][NullTextCall' =>
          /\ last'.status = STATUS_INVALID
          /\ STATUS_INVALID \notin {STATUS_OK, STATUS_SEND_FAILED, STATUS_NOT_READY}
          /\ NothingElseChanges]_vars

\* a null title passed after the loop has exited, with the mailbox published
C1_Witness ==
    /\ NullTextCall
    /\ last.op = "pw_set_title"
    /\ last.status = STATUS_INVALID
    /\ PROXY
    /\ loop = "Returned"

\* C2: executeScript and setTitle with valid text, and resize, called before
\* startApp has published the mailbox sender return the not-ready status -3,
\* enqueue nothing and leave all window and UI state as it was; such a call is
\* always able to complete (it never blocks).
C2_NotReadyBeforePublication ==
    /\ [][(~PROXY /\ ValidHostCall') =>
             /\ last'.status = STATUS_NOT_READY
             /\ NothingElseChanges]_vars
    /\ [](~PROXY =>
             \A t \in Inputs.producers :
                /\ \A s \in Inputs.texts[t] :
                      ENABLED pw_execute_javascript(t, s) /\ ENABLED pw_set_title(t, s)
                /\ \A s \in Inputs.sizes[t] : ENABLED pw_resize_window(t, s))

\* a script posted before startApp was ever called is refused as not ready
C2_Witness ==
    /\ last.op = "pw_execute_javascript"
    /\ ~last.arg.null
    /\ last.status = STATUS_NOT_READY
    /\ ~PROXY
    /\ queue = <<>>

\* C3: once the window has been closed and startApp has returned, every later
\* executeScript, setTitle and resize call fails with the send-failed status -2.
\* (As written: refuted by a call with a null text pointer.)
C3_EveryLaterCallSendFailed ==
    (ret = <<STATUS_OK>> /\ last.op \in HostCalls) => last.status = STATUS_SEND_FAILED

\* C3, amended: once the window has been closed and startApp has returned, every
\* later call whose text pointer is not null (and every resize) fails with -2, a
\* call with a null text pointer fails with -1, none returns success and none has
\* a side effect.
C3_LaterCallsFailCleanly ==
    [][(ret = <<STATUS_OK>> /\ last'.op \in HostCalls) =>
          /\ last'.status = IF NullTextCall' THEN STATUS_INVALID ELSE STATUS_SEND_FAILED
          /\ last'.status # STATUS_OK
          /\ NothingElseChanges]_vars

\* a resize after the close request made startApp return 0
C3_Witness ==
    /\ ret = <<STATUS_OK>>
    /\ loop = "Returned"
    /\ last.op = "pw_resize_window"
    /\ last.status = STATUS_SEND_FAILED

\* C4: every command whose post returned success is consumed by the UI loop
\* exactly once: none is consumed that was not posted, none is consumed twice or
\* out of turn, and none is left unconsumed when the window was closed and
\* startApp has returned 0, also when the post races with the close request.
C4_ConsumedExactlyOnce ==
    /\ \A t \in Producers : done[t] <= sent[t]
    /\ \A i \in 1..Len(queue) : queue[i].n > done[queue[i].by]
    /\ ret = <<STATUS_OK>> => \A t \in Producers : done[t] = sent[t]

Contains(s, p) == \E i \in 1..(Len(s) - Len(p) + 1) : SubSeq(s, i, i + Len(p) - 1) = p

\* C6: with a callback registered, a console line equal to "PW_MSG:" followed by
\* any text T invokes the callback exactly once, with payload T (also T empty, also
\* T holding a NUL); with no callback registered it invokes nothing.
C6_PrefixedLineDeliversPayload ==
    \A T \in TextsUpTo(MaxText) :
        (last.op = "show_console_message" /\ last.arg = PW_MSG \o T) =>
            last.cb = IF ON_EVENT_CALLBACK THEN <<T>> ELSE <<>>

\* C7: a console line that does not contain "PW_MSG:" invokes no callback and
\* changes no UI state (repaint flag, pointer position, modifiers, window).
C7_UnprefixedLineIsInert ==
    [][(last'.op = "show_console_message" /\ ~Contains(last'.arg, PW_MSG)) =>
          /\ last'.cb = <<>>
          /\ NothingElseChanges]_vars

\* "PW_MSG" (the prefix without its colon) logged with a callback registered, the
\* pointer moved and a frame pending
C7_Witness ==
    /\ last.op = "show_console_message"
    /\ last.arg = SubSeq(PW_MSG, 1, Len(PW_MSG) - 1)
    /\ last.cb = <<>>
    /\ ON_EVENT_CALLBACK
    /\ app.needs_repaint
    /\ app.last_mouse_position # <<0, 0>>

\* a sub-step of the handler failed
FailedSubSteps ==
    {"create_window failed", "WindowRenderingContext::new failed",
     "make_current(window) failed", "make_current(offscreen) failed"}

Faulted ==
    \/ last.op = "pw_start_app" /\ last.arg # <<"ok", TRUE>>
    \/ \E i \in 1..Len(last.trace) : last.trace[i].op \in FailedSubSteps

\* C8: a fault inside startApp (resource path missing or nonexistent, window or
\* rendering-context creation failure, a failed make-current during repaint) makes
\* startApp return a non-zero status; when the resource path is missing or
\* nonexistent this happens with no window created and the mailbox unpublished,
\* and host calls keep returning not-ready afterwards.
C8_FaultsBecomeFailureStatus ==
    /\ [](Faulted => (loop = "Returned" /\ ret = <<START_FAILED>> /\ START_FAILED # 0))
    /\ []((last.op = "pw_start_app" /\ last.arg[1] \in {"unset", "nonexistent"}) =>
             (~PROXY /\ ~app.window /\ win.title = <<>> /\ queue = <<>>))
    /\ [][(loop = "Returned" /\ ~PROXY) =>
             /\ ~PROXY'
             /\ ~app'.window
             /\ ValidHostCall' => last'.status = STATUS_NOT_READY]_vars

\* a title set after startApp failed for want of resources is refused as not ready
C8_Witness ==
    /\ loop = "Returned"
    /\ ret = <<START_FAILED>>
    /\ ~PROXY
    /\ last.op = "pw_set_title"
    /\ ~last.arg.null
    /\ last.status = STATUS_NOT_READY

\* the moves of the loop: Uninitialized -> (resumed makes the window: WindowReady,
\* from then on) Running -> ShuttingDown -> startApp returns
LoopMoves ==
    {<<"NotStarted", "Uninitialized">>, <<"Uninitialized", "Running">>,
     <<"Running", "ShuttingDown">>, <<"ShuttingDown", "Returned">>}

C10_SetTitleOnlySetsTitle ==
    [][(last'.op = "user_event" /\ last'.arg.ev.kind = "SetTitle" /\ app.window) =>
          /\ win' = [win EXCEPT !.title = last'.arg.ev.text]
          /\ last'.trace = <<[op |-> "set_title", current |-> gl.current,
                              rect |-> <<0, 0, 0, 0>>]>>
          /\ last'.input = <<>>
          /\ UNCHANGED <<app, gl, view, loop, ret, PROXY, ON_EVENT_CALLBACK>>]_vars

\* SetTitle("A") handled with a frame pending, the pointer moved and a modifier held
C10_Witness ==
    /\ last.op = "user_event"
    /\ last.arg.ev = SetTitle(<<65>>)
    /\ win.title = <<65>>
    /\ win.title # app.initial_title
    /\ app.needs_repaint
    /\ app.last_mouse_position # <<0, 0>>
    /\ app.modifiers_state # 0

\* the places of a sub-step in a handler's trace, and how often it was taken
Where(trace, op) == {i \in 1..Len(trace) : trace[i].op = op}

Count(trace, op) == Cardinality(Where(trace, op))

\* the physical size of a logical size at the window's pixel ratio
Scaled(size) == <<size[1] * win.scale_factor, size[2] * win.scale_factor>>

\* C11: once a Resize(W,H) command was consumed (window present) and while WxH is
\* the window's requested size, no repaint runs unless the on-screen context, the
\* offscreen context and the content view all have the size WxH scaled by the pixel
\* ratio.
C11_NoRepaintAtStaleSize ==
    \A t \in Producers :
        (/\ prev[t].ev.kind = "Resize"
         /\ prev[t].window
         /\ win.requested = prev[t].ev.size
         /\ last.op \in {"window_event", "user_event"}
         /\ Where(last.trace, "paint") # {}) =>
            /\ gl.window_size = Scaled(prev[t].ev.size)
            /\ gl.offscreen_size = Scaled(prev[t].ev.size)
            /\ view.size = Scaled(prev[t].ev.size)

\* the sub-step that is the effect of each command when its target exists
CommandEffect ==
    [Wake |-> "spin_event_loop", ExecuteJs |-> "evaluate_javascript",
     SetTitle |-> "set_title", Resize |-> "request_inner_size"]

\* C12: within Running, every drained command (Wake, ExecuteJs, SetTitle, Resize)
\* is handled by applying its effect first and then pumping the engine exactly
\* once; for Wake the pump is all there is.
C12_EveryCommandPumpsOnce ==
    (last.op = "user_event" /\ app.servo) =>
        LET k == last.arg.ev.kind IN
        /\ Count(last.trace, "spin_event_loop") = 1
        /\ last.trace[1].op = CommandEffect[k]
        /\ k # "Wake" => last.trace[2].op = "spin_event_loop"

\* the sub-steps of one complete repaint
RepaintSteps ==
    <<"make_current(offscreen)", "prepare_for_rendering(offscreen)", "paint",
      "make_current(window)", "prepare_for_rendering(window)", "blit", "present">>

\* the sub-steps that are the effect of each window event, the engine present
WindowEffect(kind) ==
    CASE kind = "Resized" -> <<"window_rc.resize", "webview.resize">>
      [] kind = "ScaleFactorChanged" -> <<"set_hidpi_scale_factor">>
      [] kind = "CursorMoved" -> <<"last_mouse_position.set", "notify_input_event">>
      [] kind \in {"MouseInput", "KeyboardInput", "MouseWheel"} -> <<"notify_input_event">>
      [] kind = "ModifiersChanged" -> <<"modifiers_state.set">>
      [] kind = "RedrawRequested" -> <<"RedrawRequested">> \o RepaintSteps
      [] OTHER -> <<>>

\* C13: within Running, every window event that keeps the loop running (resize,
\* scale change, pointer move, mouse button, modifier change, key, wheel, redraw
\* request, unrecognised event) is handled by applying its effect first and then
\* pumping the engine exactly once: the handler's sub-steps are those of the
\* effect, then the one spin of the engine (and what that pump repaints).
C13_WindowEventThenOnePump ==
    (last.op = "window_event" /\ last.arg.kind # "CloseRequested"
     /\ last.status = STATUS_OK) =>
        LET effect == WindowEffect(last.arg.kind) IN
        /\ Len(last.trace) > Len(effect)
        /\ \A i \in 1..Len(effect) : last.trace[i].op = effect[i]
        /\ last.trace[Len(effect) + 1].op = "spin_event_loop"
        /\ Count(last.trace, "spin_event_loop") = 1

\* a resize to 1600x1200 reached both contexts and the view, then the pump ran and
\* repainted the new frame it was told of
C13_Witness ==
    /\ last.op = "window_event"
    /\ last.arg.kind = "Resized"
    /\ last.status = STATUS_OK
    /\ gl.window_size = <<1600, 1200>>
    /\ view.size = <<1600, 1200>>
    /\ last.trace[3].op = "spin_event_loop"
    /\ Where(last.trace, "present") # {}

\* a repaint was begun at sub-step i of the trace
RepaintBegunAt(trace, i) ==
    trace[i].op \in {"make_current(offscreen)", "make_current(offscreen) failed"}

\* C14: the repaint-needed flag is set by the new-frame notification and, once
\* set, stays set through every step that does not repaint: whenever it goes from
\* set to clear a repaint was begun in that very step, and that repaint ran through
\* to present unless a failed make-current ended startApp; a notification that no
\* repaint follows within its handler leaves the flag set.
C14_FlagClearedOnlyByRepaint ==
    [][/\ (app.needs_repaint /\ ~app'.needs_repaint) =>
             /\ \E i \in 1..Len(last'.trace) : RepaintBegunAt(last'.trace, i)
             /\ last'.status = STATUS_OK => Where(last'.trace, "present") # {}
       /\ \A i \in Where(last'.trace, "notify_new_frame_ready") :
             \/ app'.needs_repaint
             \/ \E j \in (i + 1)..Len(last'.trace) : RepaintBegunAt(last'.trace, j)
       /\ (last'.op = "delegate" /\ last'.arg = "new_frame") =>
             (app'.needs_repaint /\ win'.redraw_requested)]_vars

\* a Wake is consumed with the flag set earlier and a command handled since: the
\* pump hears of no new frame, repaints and clears the flag
C14_Witness ==
    /\ last.op = "user_event"
    /\ last.arg.ev = Wake
    /\ done["t1"] > 0
    /\ Where(last.trace, "notify_new_frame_ready") = {}
    /\ Where(last.trace, "present") # {}
    /\ ~app.needs_repaint

\* C15: a pump repaints if and only if a new frame has been signalled since the
\* last repaint: after its spin it begins at most one repaint, it begins one
\* exactly when the engine signalled a new frame during the spin or the flag was
\* set before the handler and the handler has not already repainted, and it
\* leaves the flag clear when it does.
C15_PumpRepaintsIffNewFrame ==
    [][Where(last'.trace, "spin_event_loop") # {} =>
          LET tr == last'.trace
              s == CHOOSE i \in Where(tr, "spin_event_loop") : TRUE
              begun == {j \in (s + 1)..Len(tr) : RepaintBegunAt(tr, j)}
              repainted_before == {j \in 1..(s - 1) : tr[j].op = "present"}
              signalled == \/ Where(tr, "notify_new_frame_ready") # {}
                           \/ app.needs_repaint /\ repainted_before = {}
          IN  /\ Cardinality(begun) <= 1
              /\ begun # {} <=> signalled
              /\ begun # {} => ~app'.needs_repaint]_vars

\* C16: handling one redraw request invokes the repaint directly and presents the
\* visible surface exactly once, whether or not the repaint-needed flag is set.
C16_RedrawPresentsOnce ==
    (last.op = "window_event" /\ last.arg.kind = "RedrawRequested"
     /\ last.status = STATUS_OK) =>
        /\ RepaintBegunAt(last.trace, 2)
        /\ Count(last.trace, "present") = 1

\* the context that has to be current at each sub-step of a repaint
RepaintContext ==
    <<"offscreen", "offscreen", "offscreen", "window", "window", "window", "window">>

\* the sub-steps that belong to a repaint only (resumed also makes the on-screen
\* context current)
RepaintOnly == {2, 3, 5, 6, 7}

Creations ==
    {"create_window", "WindowRenderingContext::new", "offscreen_context",
     "ServoBuilder::build", "WebViewBuilder::build"}

Resources ==
    {"window", "window_rendering_context", "offscreen_rendering_context", "servo", "webview"}

\* C18: the first activation makes the window, both rendering contexts, the engine
\* and the content view, each once, pumps once and requests a redraw; a later
\* activation changes no state; none of the five is made by any other step, and
\* once present none is reset or replaced.
C18_ActivationIdempotent ==
    [][/\ (last'.op = "resumed" /\ app.window) =>
             (NothingElseChanges /\ last'.trace = <<>> /\ last'.input = <<>>)
       /\ (last'.op = "resumed" /\ ~app.window /\ last'.status = STATUS_OK) =>
             /\ \A op \in Creations : Count(last'.trace, op) = 1
             /\ Count(last'.trace, "spin_event_loop") = 1
             /\ last'.trace[Len(last'.trace)].op = "request_redraw"
             /\ win'.redraw_requested
             /\ \A r \in Resources : app'[r]
       /\ \A op \in Creations :
             Count(last'.trace, op) > 0 => (last'.op = "resumed" /\ ~app.window)
       /\ \A r \in Resources : app[r] => app'[r]
       /\ app.webview => view'.url = view.url]_vars

\* a second activation after the title was changed: nothing is made, the changed
\* title stays
C18_Witness ==
    /\ last.op = "resumed"
    /\ last.trace = <<>>
    /\ \A r \in Resources : app[r]
    /\ win.title = <<65>>
    /\ win.title # app.initial_title

\* C19: a pointer move stores its position as the last-known one and forwards a
\* move event with that position; no other step changes the last-known position
\* (the origin at start); a button event is forwarded with the last-known position,
\* so it carries the position of the most recent pointer move whatever came in
\* between.
C19_ButtonAtLastMove ==
    /\ [](loop = "Uninitialized" => app.last_mouse_position = <<0, 0>>)
    /\ [][/\ (last'.op = "window_event" /\ last'.arg.kind = "CursorMoved") =>
                /\ app'.last_mouse_position = last'.arg.pos
                /\ last'.input = <<InputEvent("MouseMove", last'.arg.pos, 0, 0)>>
          /\ ~(last'.op = "window_event" /\ last'.arg.kind = "CursorMoved") =>
                (loop # "NotStarted" => app'.last_mouse_position = app.last_mouse_position)
          /\ (last'.op = "window_event" /\ last'.arg.kind = "MouseInput") =>
                Len(last'.input) = 1
          /\ \A i \in 1..Len(last'.input) :
                last'.input[i].kind = "MouseButton" =>
                    /\ last'.op = "window_event" /\ last'.arg.kind = "MouseInput"
                    /\ last'.input[i] = InputEvent("MouseButton", app.last_mouse_position,
                                                   last'.arg.n, last'.arg.n)]_vars

\* a button event forwarded at (30,40), the place of the last pointer move, with a
\* modifier change and a command handled since the loop began
C19_Witness ==
    /\ last.op = "window_event"
    /\ last.arg.kind = "MouseInput"
    /\ last.input = <<InputEvent("MouseButton", <<30, 40>>, last.arg.n, last.arg.n)>>
    /\ app.last_mouse_position = <<30, 40>>
    /\ app.modifiers_state # 0
    /\ done["t1"] > 0

\* C20: while the loop is running and goes on delivering the redraws it was asked
\* for, a new frame signalled to the delegate (flag set, redraw requested) is
\* eventually painted and presented with the flag cleared, unless the loop is
\* closed or a failed make-current ends it first.
C20_FrameEventuallyShown ==
    (app.needs_repaint /\ loop = "Running") ~>
        \/ ~app.needs_repaint /\ Where(last.trace, "present") # {}
        \/ loop # "Running"

\* a frame signalled while the loop was idle: the redraw it asked for is delivered,
\* the engine signals nothing more, the frame is presented and the flag is clear
C20_Witness ==
    /\ last.op = "window_event"
    /\ last.arg.kind = "RedrawRequested"
    /\ Where(last.trace, "notify_new_frame_ready") = {}
    /\ Count(last.trace, "paint") = 2
    /\ ~app.needs_repaint
    /\ ~win.redraw_requested
    /\ loop = "Running"

\* the sub-steps by which a command takes effect
CommandSteps == {"evaluate_javascript", "set_title", "request_inner_size"}

\* C21: a command posted with status 0 and consumed before the window and the
\* content view exist is discarded: consuming ExecuteJs, SetTitle or Resize then
\* takes it off the queue and changes no other state; the activation that follows
\* makes the window with the initial title and size and forwards nothing, so the
\* command is not replayed; and a repaint in that state is a no-op.
C21_EarlyCommandDiscarded ==
    /\ [](loop = "Uninitialized" =>
             /\ ~app.window /\ ~app.webview
             /\ \A gpu \in GpuOutcomes : repaint(World, gpu) = World)
    /\ [][(last'.op = "user_event" /\ ~app.window) =>
             /\ last'.arg.ev.kind \in {"ExecuteJs", "SetTitle", "Resize"}
             /\ sent[last'.arg.by] >= last'.arg.n
             /\ queue' = Tail(queue)
             /\ last'.status = STATUS_OK
             /\ last'.trace = <<>> /\ last'.input = <<>>
             /\ UNCHANGED <<app, win, gl, view, loop, ret, PROXY, ON_EVENT_CALLBACK>>]_vars
    /\ [][(last'.op = "resumed" /\ ~app.window /\ last'.status = STATUS_OK) =>
             /\ win'.title = app.initial_title
             /\ win'.requested = app.initial_size
             /\ last'.input = <<>>
             /\ \A op \in CommandSteps : Count(last'.trace, op) = 0
             /\ UNCHANGED <<queue, done>>]_vars

\* setTitle("A") returned 0, was consumed with no window, and the window then made
\* has the default title
C21_Witness ==
    /\ last.op = "resumed"
    /\ last.status = STATUS_OK
    /\ done["t1"] = 1
    /\ prev["t1"] = [ev |-> SetTitle(<<65>>), window |-> FALSE]
    /\ queue = <<>>
    /\ win.title = app.initial_title
    /\ win.title # <<65>>

====
